---- MODULE Spec2Model ----
\* Turn-based PvP core of src/index.js: the matchmaking queue (waitingPlayers),
\* the active-match map (activeMatches), the battle resolver (resolveTurn) and the
\* four socket handlers pvp:queue, pvp:leave, pvp:submit_action and disconnect.
\* Node runs every handler to completion, so each handler is one atomic action.
EXTENDS Integers, Sequences, FiniteSets, TLC

VARIABLES
    waitingPlayers,  \* index.js:643  the queue, a sequence of waiting entries
    activeMatches,   \* index.js:644  Map matchId -> match
    nextMatchId,     \* index.js:880  uuidv4(): the next fresh match id
    connected,       \* index.js:773  the sockets whose handlers are registered
    nextSocketId,    \* index.js:774  socket.id of the next connection
    outbox,          \* the messages the last handler emitted, in emission order
    last,            \* the last event handled and what the handler did with it
    arrivals,        \* the entries pushed so far, in order, while the run is orderly
    orderly          \* no leave or disconnect yet, every join a new player on a new connection

vars == <<waitingPlayers, activeMatches, nextMatchId, connected, nextSocketId,
          outbox, last, arrivals, orderly>>

-----------------------------------------------------------------------------
\* Bounds of the model. Spec explores the registry with short battles, DuelSpec
\* follows the first match of the server to its end, RollSpec plays its first
\* turns with every roll, FifoSpec queues new players on new connections.
NumSockets == 3
NumPlayers == 2
MaxMatches == 1
MaxTurn == 1
DuelTurns == 4
RollTurns == 1
EndTurns == 5
AttackTurns == 7
PairsMatches == 2
FifoClients == 4

\* Program constants
StartHp == 100
FirstTurn == 1
\* a match takes waitingPlayers.length >= 2 and holds two entries (index.js:875)
MatchSize == 2
AttackBase == 15
RollRange == 11
SpecialDamage == 30
SpecialCooldown == 2
WinnerTrophyGain == 20
LoserTrophyLoss == 10

PlayerIds == 1..NumPlayers
MatchIds == 1..MaxMatches
\* Math.floor(Math.random() * 11) ranges over 0..10; the model draws the two ends
RollInputs == {0, RollRange - 1}
\* RollSpec draws every value of the range
AllRolls == 0..(RollRange - 1)
\* DuelSpec plays every attack at the top of the range
DuelRolls == {RollRange - 1}
AttackRolls == {0, (RollRange - 1) \div 2, RollRange - 1}
\* playerData.trophies || 0 (index.js:788): each player reports its own count
TrophiesOf(playerId) == 20 * (playerId - 1)
ValidActions == {"attack", "defend", "special"}
ActionInputs == ValidActions \cup {"taunt"}
Null == "null"
\* `let winner = null` (index.js:730); playerIds are truthy, so 0 stands for null
NoWinner == 0

Max(a, b) == IF a >= b THEN a ELSE b

-----------------------------------------------------------------------------
\* The tests the handlers pass to findIndex / find / some, as the sequence of
\* their results over the array
OnSocket(seq, s) == [i \in DOMAIN seq |-> seq[i].socketId = s]
OffSocket(seq, s) == [i \in DOMAIN seq |-> seq[i].socketId # s]
OfPlayer(seq, playerId) == [i \in DOMAIN seq |-> seq[i].playerId = playerId]

\* Array.prototype.findIndex: the first index satisfying the test, 0 for -1
FindIndex(hits) ==
    IF \E i \in DOMAIN hits : hits[i]
    THEN CHOOSE i \in DOMAIN hits : hits[i] /\ \A j \in 1..(i - 1) : ~hits[j]
    ELSE 0

\* Array.prototype.splice(index, 1)
Splice(seq, i) == [k \in 1..(Len(seq) - 1) |-> IF k < i THEN seq[k] ELSE seq[k + 1]]

\* findIndex + splice as the handlers use them: remove the first hit, if any
RemoveFirst(seq, hits) ==
    LET i == FindIndex(hits) IN IF i > 0 THEN Splice(seq, i) ELSE seq

Msg(to, type, data) == [to |-> to, type |-> type, data |-> data]
NoData == <<>>

-----------------------------------------------------------------------------
\* createBattleState (index.js:647): the object literal is keyed by playerId
PlayerState == [hp |-> StartHp, maxHp |-> StartHp, action |-> Null, specialCooldown |-> 0]

CreateBattleState(player1, player2) ==
    [turn |-> FirstTurn,
     players |-> [id \in {player1.playerId, player2.playerId} |-> PlayerState],
     playerIds |-> <<player1.playerId, player2.playerId>>,
     status |-> "waiting_actions"]

\* Mutant of BaseDamage: the attack range shifted up by one
BaseDamageShifted(action, cooldown, roll) ==
    IF action = "attack" THEN AttackBase + roll + 1
    ELSE IF action = "special" /\ cooldown = 0 THEN SpecialDamage
    ELSE 0

\* resolveTurn, lines 681-686 / 689-694: the damage a side's action deals
BaseDamage(action, cooldown, roll) ==
    IF action = "attack" THEN AttackBase + roll
    ELSE IF action = "special" /\ cooldown = 0 THEN SpecialDamage
    ELSE 0

\* Mutant of CooldownAfterAction: line 685 left out, a special starts no cooldown
CooldownAfterActionNone(action, cooldown) == cooldown

\* lines 683-686: a special played off cooldown starts the cooldown
CooldownAfterAction(action, cooldown) ==
    IF action = "special" /\ cooldown = 0 THEN SpecialCooldown ELSE cooldown

\* Mutant of Mitigate: the halved damage rounded up instead of down
MitigateRoundUp(damage, receiverAction) ==
    IF receiverAction = "defend" THEN (damage + 1) \div 2 ELSE damage

\* lines 697-698: Math.floor(damage * 0.5) when the receiving side defends
Mitigate(damage, receiverAction) ==
    IF receiverAction = "defend" THEN damage \div 2 ELSE damage

\* Mutant of ApplyDamage: the damage is taken off the starting hp
ApplyDamageFromStart(hp, damage) == Max(0, StartHp - damage)

\* Mutant of ApplyDamage: the clamp Math.max(0, .) left out
ApplyDamageUnclamped(hp, damage) == hp - damage

\* lines 701-702: Math.max(0, hp - damage)
ApplyDamage(hp, damage) == Max(0, hp - damage)

\* Mutant of DecayCooldown: the cooldown is taken down two at a time
DecayCooldownByTwo(cooldown, action) ==
    IF cooldown > 0 /\ action # "special" THEN Max(0, cooldown - 2) ELSE cooldown

\* Mutant of DecayCooldown: the cooldown also decays in the turn of the special
DecayCooldownAlways(cooldown, action) ==
    IF cooldown > 0 THEN cooldown - 1 ELSE cooldown

\* lines 705-706
DecayCooldown(cooldown, action) ==
    IF cooldown > 0 /\ action # "special" THEN cooldown - 1 ELSE cooldown

\* Mutant of CheckWinner: lines 731-732 left out, a double knock-out has no winner
CheckWinnerNoTie(p1Id, p2Id, hp1, hp2) ==
    IF hp1 <= 0 /\ hp2 <= 0 THEN NoWinner
    ELSE IF hp1 <= 0 THEN p2Id
    ELSE IF hp2 <= 0 THEN p1Id
    ELSE NoWinner

\* Mutant of CheckWinner: >= in the double knock-out comparison
CheckWinnerFirstOnTie(p1Id, p2Id, hp1, hp2) ==
    IF hp1 <= 0 /\ hp2 <= 0 THEN (IF hp1 >= hp2 THEN p1Id ELSE p2Id)
    ELSE IF hp1 <= 0 THEN p2Id
    ELSE IF hp2 <= 0 THEN p1Id
    ELSE NoWinner

\* Mutant of CheckWinner: knocked out only below 0, which the clamp never leaves
CheckWinnerBelowZero(p1Id, p2Id, hp1, hp2) ==
    IF hp1 < 0 /\ hp2 < 0 THEN (IF hp1 > hp2 THEN p1Id ELSE p2Id)
    ELSE IF hp1 < 0 THEN p2Id
    ELSE IF hp2 < 0 THEN p1Id
    ELSE NoWinner

\* lines 730-737: the winner's playerId, NoWinner for none
CheckWinner(p1Id, p2Id, hp1, hp2) ==
    IF hp1 <= 0 /\ hp2 <= 0 THEN (IF hp1 > hp2 THEN p1Id ELSE p2Id)
    ELSE IF hp1 <= 0 THEN p2Id
    ELSE IF hp2 <= 0 THEN p1Id
    ELSE NoWinner

\* An object literal {[k1]: v1, [k2]: v2}: the later key wins when k1 = k2
Obj2(k1, v1, k2, v2) == [id \in {k1, k2} |-> IF id = k2 THEN v2 ELSE v1]

\* Mutant of BattleEndMsgs: the loser loses as much as the winner gains
BattleEndMsgsSymmetric(players, winner) ==
    [i \in 1..Len(players) |->
        Msg(players[i].socketId, "battle_end",
            [winner |-> winner,
             won |-> (players[i].playerId = winner),
             trophyChange |-> IF players[i].playerId = winner
                              THEN WinnerTrophyGain ELSE 0 - WinnerTrophyGain])]

\* Mutant of BattleEndMsgs: every participant is sent the notice twice
BattleEndMsgsRepeated(players, winner) ==
    [i \in 1..(2 * Len(players)) |->
        LET p == players[((i - 1) % Len(players)) + 1]
        IN Msg(p.socketId, "battle_end",
               [winner |-> winner,
                won |-> (p.playerId = winner),
                trophyChange |-> IF p.playerId = winner
                                 THEN WinnerTrophyGain ELSE 0 - LoserTrophyLoss])]

\* lines 748-760: the battle_end notices, one per entry of match.players
BattleEndMsgs(players, winner) ==
    [i \in 1..Len(players) |->
        Msg(players[i].socketId, "battle_end",
            [winner |-> winner,
             won |-> (players[i].playerId = winner),
             trophyChange |-> IF players[i].playerId = winner
                              THEN WinnerTrophyGain ELSE 0 - LoserTrophyLoss])]

\* lines 748-763: the calls the winner branch makes on the player store
\* (pool.query on the players table): it makes none, trophyChange only travels
\* in the battle_end notices
ProfileCalls(players, winner) == <<>>

\* lines 748-749: the battle object when a winner is declared (actions are kept)
FinishBattle(match, players) ==
    [match EXCEPT !.battleState.players = players,
                  !.battleState.status = "finished"]

\* Mutant of NextTurn: line 769 left out, the status stays as the handler set it
NextTurnStillResolving(match, players) ==
    [match EXCEPT !.battleState.players =
                     [id \in DOMAIN players |-> [players[id] EXCEPT !.action = Null]],
                  !.battleState.turn = @ + 1]

\* Mutant of NextTurn: the two actions are not reset
NextTurnKeepActions(match, players) ==
    [match EXCEPT !.battleState.players = players,
                  !.battleState.turn = @ + 1,
                  !.battleState.status = "waiting_actions"]

\* lines 764-770: actions reset, turn advanced, status back to waiting_actions
NextTurn(match, players) ==
    LET p1Id == match.battleState.playerIds[1]
        p2Id == match.battleState.playerIds[2]
        P7 == [players EXCEPT ![p1Id].action = Null]
        P8 == [P7 EXCEPT ![p2Id].action = Null]
    IN [match EXCEPT !.battleState.players = P8,
                     !.battleState.turn = @ + 1,
                     !.battleState.status = "waiting_actions"]

\* Mutant of TurnResultMsg: the test of line 745 left out, opponentId is always
\* the second combatant
TurnResultMsgSecond(p, turnResult, p1Id, p2Id) ==
    Msg(p.socketId, "turn_result",
        [result |-> turnResult, yourId |-> p.playerId, opponentId |-> p2Id])

\* pvp:turn_result as sent to participant p (index.js:740-746): the shared
\* turnResult, here under "result", with the recipient's view of who is who
TurnResultMsg(p, turnResult, p1Id, p2Id) ==
    Msg(p.socketId, "turn_result",
        [result |-> turnResult,
         yourId |-> p.playerId,
         opponentId |-> IF p.playerId = p1Id THEN p2Id ELSE p1Id])

\* resolveTurn (index.js:670-771) on a match whose two actions are recorded, with
\* the two Math.random draws r1, r2. The result holds the match object as the
\* function leaves it, whether activeMatches.delete ran, the messages emitted and
\* the two values hp - damage that Math.max clamps (postDamage) and the values
\* Math.random was asked for (draws): line 682 / 690 runs only for an attack.
ResolveTurn(match, r1, r2) ==
    LET battle == match.battleState
        p1Id == battle.playerIds[1]
        p2Id == battle.playerIds[2]
        P0 == battle.players
        a1 == P0[p1Id].action
        a2 == P0[p2Id].action
        d1 == BaseDamage(a1, P0[p1Id].specialCooldown, r1)
        P1 == [P0 EXCEPT ![p1Id].specialCooldown = CooldownAfterAction(a1, @)]
        d2 == BaseDamage(a2, P1[p2Id].specialCooldown, r2)
        P2 == [P1 EXCEPT ![p2Id].specialCooldown = CooldownAfterAction(a2, @)]
        p1Damage == Mitigate(d1, a2)
        p2Damage == Mitigate(d2, a1)
        raw1 == P2[p1Id].hp - p2Damage
        P3 == [P2 EXCEPT ![p1Id].hp = ApplyDamage(@, p2Damage)]
        raw2 == P3[p2Id].hp - p1Damage
        P4 == [P3 EXCEPT ![p2Id].hp = ApplyDamage(@, p1Damage)]
        P5 == [P4 EXCEPT ![p1Id].specialCooldown = DecayCooldown(@, a1)]
        P6 == [P5 EXCEPT ![p2Id].specialCooldown = DecayCooldown(@, a2)]
        turnResult == [turn |-> battle.turn,
                       actions |-> Obj2(p1Id, a1, p2Id, a2),
                       damage |-> Obj2(p1Id, p2Damage, p2Id, p1Damage),
                       hp |-> Obj2(p1Id, P6[p1Id].hp, p2Id, P6[p2Id].hp),
                       specialCooldown |-> Obj2(p1Id, P6[p1Id].specialCooldown,
                                                p2Id, P6[p2Id].specialCooldown)]
        winner == CheckWinner(p1Id, p2Id, P6[p1Id].hp, P6[p2Id].hp)
        draws == <<IF a1 = "attack" THEN <<r1>> ELSE <<>>,
                   IF a2 = "attack" THEN <<r2>> ELSE <<>> >>
        turnMsgs == [i \in 1..Len(match.players) |->
                        TurnResultMsg(match.players[i], turnResult, p1Id, p2Id)]
    IN  IF winner # NoWinner
        THEN [match |-> FinishBattle(match, P6),
              deleted |-> TRUE,
              winner |-> winner,
              msgs |-> turnMsgs \o BattleEndMsgs(match.players, winner),
              postDamage |-> <<raw1, raw2>>,
              draws |-> draws,
              calls |-> ProfileCalls(match.players, winner)]
        ELSE [match |-> NextTurn(match, P6),
              deleted |-> FALSE,
              winner |-> NoWinner,
              msgs |-> turnMsgs,
              postDamage |-> <<raw1, raw2>>,
              draws |-> draws,
              calls |-> <<>>]

-----------------------------------------------------------------------------
\* What a handler did, kept for the properties: the event, its arguments, the
\* branch the handler took, the result of resolveTurn when it ran (else <<>>), the
\* waiting entries the handler spliced out and the matches a disconnect deleted.
Last(kind, socket, playerId, matchId, action, verdict, resolve, spliced, removed) ==
    [kind |-> kind, socket |-> socket, playerId |-> playerId, matchId |-> matchId,
     action |-> action, verdict |-> verdict, resolve |-> resolve, spliced |-> spliced,
     removed |-> removed]

\* The entries findIndex + splice take out of the queue: the first match, if any
Spliced(seq, hits) ==
    LET i == FindIndex(hits) IN IF i > 0 THEN <<seq[i]>> ELSE <<>>

Init ==
    /\ waitingPlayers = <<>>
    /\ activeMatches = <<>>
    /\ nextMatchId = 1
    /\ connected = {}
    /\ nextSocketId = 1
    /\ outbox = <<>>
    /\ last = Last("init", 0, 0, 0, Null, "none", <<>>, <<>>, {})
    /\ arrivals = <<>>
    /\ orderly = TRUE

\* Mutant of MatchFoundMsg: the notice describes its recipient as the opponent
MatchFoundMsgSelf(matchId, me, other) ==
    Msg(me.socketId, "match_found",
        [matchId |-> matchId, yourId |-> me.playerId,
         opponent |-> [id |-> me.playerId, trophies |-> me.trophies],
         startHp |-> StartHp])

\* match_found as tryMatchPlayers sends it (index.js:892-912)
MatchFoundMsg(matchId, me, other) ==
    Msg(me.socketId, "match_found",
        [matchId |-> matchId, yourId |-> me.playerId,
         opponent |-> [id |-> other.playerId, trophies |-> other.trophies],
         startHp |-> StartHp])

\* lines 880-913: the match made of player1 and player2, registered under the
\* fresh id, and the two notices; rest is what stays in the queue
StartMatch(rest, matches, matchId, player1, player2) ==
    LET match == [id |-> matchId,
                  players |-> <<player1, player2>>,
                  battleState |-> CreateBattleState(player1, player2)]
    IN [queue |-> rest,
        matches |-> [m \in (DOMAIN matches) \cup {matchId} |->
                        IF m = matchId THEN match ELSE matches[m]],
        created |-> TRUE,
        msgs |-> <<MatchFoundMsg(matchId, player1, player2),
                   MatchFoundMsg(matchId, player2, player1)>>]

\* Mutant of TryMatchPlayers: pairing waits for a third entry
TryMatchPlayersAtThree(q, matches, matchId) ==
    IF Len(q) < 3
    THEN [queue |-> q, matches |-> matches, created |-> FALSE, msgs |-> <<>>]
    ELSE StartMatch(SubSeq(q, 3, Len(q)), matches, matchId, q[1], q[2])

\* Mutant of TryMatchPlayers: the entry with more trophies becomes player1
TryMatchPlayersByTrophies(q, matches, matchId) ==
    IF Len(q) < 2
    THEN [queue |-> q, matches |-> matches, created |-> FALSE, msgs |-> <<>>]
    ELSE IF q[2].trophies > q[1].trophies
         THEN StartMatch(SubSeq(q, 3, Len(q)), matches, matchId, q[2], q[1])
         ELSE StartMatch(SubSeq(q, 3, Len(q)), matches, matchId, q[1], q[2])

\* tryMatchPlayers (index.js:874-915) on queue q with the fresh id uuidv4() gives:
\* two shift() calls take the two entries at the front
TryMatchPlayers(q, matches, matchId) ==
    IF Len(q) < 2
    THEN [queue |-> q, matches |-> matches, created |-> FALSE, msgs |-> <<>>]
    ELSE StartMatch(SubSeq(q, 3, Len(q)), matches, matchId, q[1], q[2])

\* Mutant of DropQueued: the test of line 781 as existingIndex > 0, an old entry
\* at the front is not removed
DropQueuedBehindFront(q, playerId) ==
    IF FindIndex(OfPlayer(q, playerId)) > 1 THEN RemoveFirst(q, OfPlayer(q, playerId)) ELSE q

\* Mutant of DropQueued: the old entry of the player is left in the queue
KeepQueued(q, playerId) == q

\* lines 780-781: the waiting entry of the same playerId, if any, is spliced out
DropQueued(q, playerId) ==
    RemoveFirst(q, OfPlayer(q, playerId))

\* The entry pvp:queue pushes (index.js:783-789)
Entry(s, playerId, trophies) ==
    [socketId |-> s, playerId |-> playerId, trophies |-> trophies]

IsOrderlyJoin(s, playerId) ==
    /\ orderly
    /\ \A i \in 1..Len(arrivals) : arrivals[i].socketId # s /\ arrivals[i].playerId # playerId

\* io.on('connection') (index.js:773-774): a new socket, its handlers registered
Connect ==
    /\ connected' = connected \cup {nextSocketId}
    /\ nextSocketId' = nextSocketId + 1
    /\ outbox' = <<>>
    /\ last' = Last("connection", nextSocketId, 0, 0, Null, "none", <<>>, <<>>, {})
    /\ UNCHANGED <<waitingPlayers, activeMatches, nextMatchId, arrivals, orderly>>

\* socket.on('pvp:queue') (index.js:777-793)
Queue(s, playerId, trophies) ==
    LET removed == DropQueued(waitingPlayers, playerId)
        pushed == Append(removed, Entry(s, playerId, trophies))
        queued == Msg(s, "queued", [position |-> Len(pushed)])
        res == TryMatchPlayers(pushed, activeMatches, nextMatchId)
    IN  /\ s \in connected
        /\ waitingPlayers' = res.queue
        /\ activeMatches' = res.matches
        /\ nextMatchId' = IF res.created THEN nextMatchId + 1 ELSE nextMatchId
        /\ outbox' = <<queued>> \o res.msgs
        /\ last' = Last("queue", s, playerId, IF res.created THEN nextMatchId ELSE 0,
                        Null, IF res.created THEN "matched" ELSE "waiting", <<>>,
                        Spliced(waitingPlayers, OfPlayer(waitingPlayers, playerId)), {})
        /\ orderly' = IsOrderlyJoin(s, playerId)
        /\ arrivals' = IF IsOrderlyJoin(s, playerId)
                       THEN Append(arrivals, Entry(s, playerId, trophies)) ELSE <<>>
        /\ UNCHANGED <<connected, nextSocketId>>

\* Mutant of Leave: the entry at the front is removed, whoever owns it
LeaveFront(s) ==
    /\ s \in connected
    /\ waitingPlayers' = IF waitingPlayers = <<>> THEN <<>> ELSE Tail(waitingPlayers)
    /\ outbox' = <<>>
    /\ last' = Last("leave", s, 0, 0, Null, "none", <<>>,
                    Spliced(waitingPlayers, OnSocket(waitingPlayers, s)), {})
    /\ orderly' = FALSE
    /\ arrivals' = <<>>
    /\ UNCHANGED <<activeMatches, nextMatchId, connected, nextSocketId>>

\* socket.on('pvp:leave') (index.js:796-799)
Leave(s) ==
    /\ s \in connected
    /\ waitingPlayers' = RemoveFirst(waitingPlayers, OnSocket(waitingPlayers, s))
    /\ outbox' = <<>>
    /\ last' = Last("leave", s, 0, 0, Null, "none", <<>>,
                    Spliced(waitingPlayers, OnSocket(waitingPlayers, s)), {})
    /\ orderly' = FALSE
    /\ arrivals' = <<>>
    /\ UNCHANGED <<activeMatches, nextMatchId, connected, nextSocketId>>

\* Mutant of ApplyOutcome: activeMatches.delete left out
KeepOutcome(matches, matchId, res) == [matches EXCEPT ![matchId] = res.match]

\* Mutant of ApplyOutcome: a resolution also clears the actions recorded in every
\* other match
ApplyOutcomeClearingAll(matches, matchId, res) ==
    [m \in (DOMAIN matches) \ (IF res.deleted THEN {matchId} ELSE {}) |->
        IF m = matchId THEN res.match
        ELSE [matches[m] EXCEPT !.battleState.players =
                 [id \in DOMAIN @ |-> [@[id] EXCEPT !.action = Null]]]]

\* The active-match map after resolveTurn: the match object was mutated in place
\* and, on a winner, activeMatches.delete(matchId) ran (index.js:763)
ApplyOutcome(matches, matchId, res) ==
    IF res.deleted
    THEN [m \in (DOMAIN matches) \ {matchId} |-> matches[m]]
    ELSE [matches EXCEPT ![matchId] = res.match]

\* Mutant of AllSubmitted: only the first combatant's action is looked at
FirstSubmitted(battle) ==
    battle.players[battle.playerIds[1]].action # Null

\* Mutant of AllSubmitted: some() in place of every()
SomeSubmitted(battle) ==
    \E i \in 1..Len(battle.playerIds) : battle.players[battle.playerIds[i]].action # Null

\* lines 831-833: every playerId's recorded action is not null
AllSubmitted(battle) ==
    \A i \in 1..Len(battle.playerIds) : battle.players[battle.playerIds[i]].action # Null

\* Mutant of OpponentReadyMsgs: the notice goes to every participant of the match
OpponentReadyMsgsAll(match, s) ==
    [i \in 1..Len(match.players) |->
        Msg(match.players[i].socketId, "opponent_ready", NoData)]

\* lines 824-828: opponent_ready goes to the first entry on another socket, if any
OpponentReadyMsgs(match, s) ==
    LET o == FindIndex(OffSocket(match.players, s))
    IN IF o > 0 THEN <<Msg(match.players[o].socketId, "opponent_ready", NoData)>> ELSE <<>>

\* Mutant of SubmitVerdict: the "already submitted" test of line 812 left out
SubmitVerdictNoDupTest(s, matchId, action) ==
    IF matchId \notin DOMAIN activeMatches THEN "no_match"
    ELSE LET match == activeMatches[matchId]
             i == FindIndex(OnSocket(match.players, s))
         IN IF match.battleState.status # "waiting_actions" THEN "no_match"
            ELSE IF i = 0 THEN "not_participant"
            ELSE IF action \notin ValidActions THEN "invalid_action"
            ELSE IF action = "special"
                    /\ match.battleState.players[match.players[i].playerId].specialCooldown > 0
                 THEN "cooldown"
            ELSE "accepted"

\* Mutant of SubmitVerdict: the validation of the action name (line 815) left out
SubmitVerdictNoActionTest(s, matchId, action) ==
    IF matchId \notin DOMAIN activeMatches THEN "no_match"
    ELSE LET match == activeMatches[matchId]
             i == FindIndex(OnSocket(match.players, s))
         IN IF match.battleState.status # "waiting_actions" THEN "no_match"
            ELSE IF i = 0 THEN "not_participant"
            ELSE IF match.battleState.players[match.players[i].playerId].action # Null
                 THEN "already_submitted"
            ELSE IF action = "special"
                    /\ match.battleState.players[match.players[i].playerId].specialCooldown > 0
                 THEN "cooldown"
            ELSE "accepted"

\* Mutant of SubmitVerdict: the cooldown test of lines 816-819 left out
SubmitVerdictNoCooldownTest(s, matchId, action) ==
    IF matchId \notin DOMAIN activeMatches THEN "no_match"
    ELSE LET match == activeMatches[matchId]
             i == FindIndex(OnSocket(match.players, s))
         IN IF match.battleState.status # "waiting_actions" THEN "no_match"
            ELSE IF i = 0 THEN "not_participant"
            ELSE IF match.battleState.players[match.players[i].playerId].action # Null
                 THEN "already_submitted"
            ELSE IF action \notin ValidActions THEN "invalid_action"
            ELSE "accepted"

\* The branch socket.on('pvp:submit_action') takes (index.js:803-819)
SubmitVerdict(s, matchId, action) ==
    IF matchId \notin DOMAIN activeMatches THEN "no_match"
    ELSE LET match == activeMatches[matchId]
             i == FindIndex(OnSocket(match.players, s))
         IN IF match.battleState.status # "waiting_actions" THEN "no_match"
            ELSE IF i = 0 THEN "not_participant"
            ELSE IF match.battleState.players[match.players[i].playerId].action # Null
                 THEN "already_submitted"
            ELSE IF action \notin ValidActions THEN "invalid_action"
            ELSE IF action = "special"
                    /\ match.battleState.players[match.players[i].playerId].specialCooldown > 0
                 THEN "cooldown"
            ELSE "accepted"

\* The values the draw of combatant i can take: Math.random runs only when its
\* action is attack (lines 681-682, 689-690); one value stands for no draw
RollsOf(battle, i, rolls) ==
    IF battle.players[battle.playerIds[i]].action = "attack"
    THEN rolls
    ELSE {CHOOSE r \in rolls : \A q \in rolls : r <= q}

\* socket.on('pvp:submit_action') (index.js:802-839); rolls holds the values the
\* two draws of Math.random may take when the resolution runs
SubmitAction(s, matchId, action, rolls) ==
    LET verdict == SubmitVerdict(s, matchId, action)
    IN  /\ s \in connected
        /\ UNCHANGED <<waitingPlayers, nextMatchId, connected, nextSocketId, arrivals, orderly>>
        /\ IF verdict # "accepted"
           THEN /\ activeMatches' = activeMatches
                /\ outbox' = IF verdict = "cooldown"
                             THEN <<Msg(s, "action_error", [error |-> "Special is on cooldown!"])>>
                             ELSE <<>>
                /\ last' = Last("submit", s, 0, matchId, action, verdict, <<>>, <<>>, {})
           ELSE LET match == activeMatches[matchId]
                    player == match.players[FindIndex(OnSocket(match.players, s))]
                    recorded == [match EXCEPT
                                    !.battleState.players[player.playerId].action = action]
                    ready == OpponentReadyMsgs(match, s)
                IN IF AllSubmitted(recorded.battleState)
                   THEN \E r1 \in RollsOf(recorded.battleState, 1, rolls),
                           r2 \in RollsOf(recorded.battleState, 2, rolls) :
                        LET res == ResolveTurn(
                                       [recorded EXCEPT !.battleState.status = "resolving"],
                                       r1, r2)
                        IN /\ activeMatches' = ApplyOutcome(activeMatches, matchId, res)
                           /\ outbox' = ready \o res.msgs
                           /\ last' = Last("submit", s, player.playerId, matchId, action,
                                           "resolved",
                                           <<[match |-> res.match, deleted |-> res.deleted,
                                              winner |-> res.winner,
                                              postDamage |-> res.postDamage,
                                              draws |-> res.draws,
                                              calls |-> res.calls]>>,
                                           <<>>, {})
                   ELSE /\ activeMatches' = [activeMatches EXCEPT ![matchId] = recorded]
                        /\ outbox' = ready
                        /\ last' = Last("submit", s, player.playerId, matchId, action,
                                        "accepted", <<>>, <<>>, {})

\* Mutant of MatchesOf: a match in which the leaving side has an action recorded
\* is kept, for the turn to resolve later
MatchesOfIdle(s) ==
    {m \in DOMAIN activeMatches :
        \E i \in 1..Len(activeMatches[m].players) :
           /\ activeMatches[m].players[i].socketId = s
           /\ activeMatches[m].battleState.players[
                 activeMatches[m].players[i].playerId].action = Null}

\* Mutant of MatchesOf: the iteration stops at the first match found
MatchesOfFirstFound(s) ==
    {m \in DOMAIN activeMatches :
        /\ \E i \in 1..Len(activeMatches[m].players) : activeMatches[m].players[i].socketId = s
        /\ \A k \in DOMAIN activeMatches :
              (\E i \in 1..Len(activeMatches[k].players) :
                  activeMatches[k].players[i].socketId = s) => m <= k}

\* Mutant of MatchesOf: only the first entry of match.players is looked at
MatchesOfFirstSlot(s) ==
    {m \in DOMAIN activeMatches : activeMatches[m].players[1].socketId = s}

\* The matches activeMatches.forEach deletes on disconnect (index.js:861-869)
MatchesOf(s) ==
    {m \in DOMAIN activeMatches :
        \E i \in 1..Len(activeMatches[m].players) : activeMatches[m].players[i].socketId = s}

\* opponent_disconnect notices in Map iteration order (insertion order: ascending id)
RECURSIVE DisconnectMsgs(_, _)
DisconnectMsgs(s, m) ==
    IF m >= nextMatchId THEN <<>>
    ELSE LET o == IF m \in MatchesOf(s)
                  THEN FindIndex(OffSocket(activeMatches[m].players, s)) ELSE 0
         IN (IF o > 0
             THEN <<Msg(activeMatches[m].players[o].socketId, "opponent_disconnect", NoData)>>
             ELSE <<>>) \o DisconnectMsgs(s, m + 1)

\* socket.on('disconnect') (index.js:855-870)
Disconnect(s) ==
    /\ s \in connected
    /\ connected' = connected \ {s}
    /\ waitingPlayers' = RemoveFirst(waitingPlayers, OnSocket(waitingPlayers, s))
    /\ activeMatches' = [m \in (DOMAIN activeMatches) \ MatchesOf(s) |-> activeMatches[m]]
    /\ outbox' = DisconnectMsgs(s, 1)
    /\ last' = Last("disconnect", s, 0, 0, Null, "none", <<>>,
                    Spliced(waitingPlayers, OnSocket(waitingPlayers, s)),
                    {activeMatches[m] : m \in MatchesOf(s)})
    /\ orderly' = FALSE
    /\ arrivals' = <<>>
    /\ UNCHANGED <<nextMatchId, nextSocketId>>

\* pvp:queue for playerId would leave two entries for tryMatchPlayers to pair
WouldPair(playerId) ==
    Len(DropQueued(waitingPlayers, playerId)) >= 1

\* Connection s is a participant of matchId whose action for the turn is recorded
HasSubmitted(s, matchId) ==
    /\ matchId \in DOMAIN activeMatches
    /\ LET match == activeMatches[matchId]
           i == FindIndex(OnSocket(match.players, s))
       IN /\ i > 0
          /\ match.battleState.players[match.players[i].playerId].action # Null

\* The turn a submit_action for matchId would act on (0: no such match)
TurnOf(matchId) ==
    IF matchId \in DOMAIN activeMatches THEN activeMatches[matchId].battleState.turn ELSE 0

-----------------------------------------------------------------------------
\* Spec: the whole registry. Up to NumSockets connections are opened, any live
\* socket may send any event at any time under any of NumPlayers player ids, up to
\* MaxMatches matches are created and clients play turns 1..MaxTurn of a match.
Next ==
    \/ nextSocketId <= NumSockets /\ Connect
    \/ \E s \in connected, p \in PlayerIds :
          (WouldPair(p) => nextMatchId <= MaxMatches) /\ Queue(s, p, TrophiesOf(p))
    \/ \E s \in connected : Leave(s)
    \/ \E s \in connected, m \in MatchIds, a \in ActionInputs :
          TurnOf(m) <= MaxTurn /\ SubmitAction(s, m, a, RollInputs)
    \/ \E s \in connected : Disconnect(s)

Spec == Init /\ [][Next]_vars

\* DuelSpec: the first match of the server, played to its end. Clients queue until
\* the first match exists; then its participants (and any bystander) submit
\* actions for turns 1..DuelTurns, leave or disconnect.
DuelNext ==
    \/ nextSocketId <= MatchSize /\ Connect
    \/ \E s \in connected :
          nextMatchId = 1 /\ Queue(s, s, TrophiesOf(s))
    \/ \E s \in connected : Leave(s)
    \/ \E s \in connected, a \in ValidActions :
          TurnOf(1) <= DuelTurns /\ SubmitAction(s, 1, a, DuelRolls)
    \/ \E s \in connected : Disconnect(s)

DuelSpec == Init /\ [][DuelNext]_vars

\* RollSpec: the first match of the server with every value Math.random can
\* give, for turns 1..RollTurns; nobody leaves or disconnects and a client
\* submits once per turn.
RollNext ==
    \/ nextSocketId <= MatchSize /\ Connect
    \/ \E s \in connected :
          nextMatchId = 1 /\ Queue(s, s, TrophiesOf(s))
    \/ \E s \in connected, a \in ValidActions :
          /\ TurnOf(1) <= RollTurns
          /\ ~HasSubmitted(s, 1)
          /\ SubmitAction(s, 1, a, AllRolls)

RollSpec == Init /\ [][RollNext]_vars

\* EndSpec: the first match of the server played through turns 1..EndTurns, long
\* enough for one side to be knocked out alone; every attack rolls the top of the
\* range, nobody leaves or disconnects and a client submits once per turn.
EndNext ==
    \/ nextSocketId <= MatchSize /\ Connect
    \/ \E s \in connected :
          nextMatchId = 1 /\ Queue(s, s, TrophiesOf(s))
    \/ \E s \in connected, a \in ValidActions :
          /\ TurnOf(1) <= EndTurns
          /\ ~HasSubmitted(s, 1)
          /\ SubmitAction(s, 1, a, DuelRolls)

EndSpec == Init /\ [][EndNext]_vars

\* AttackSpec: the first match of the server with both participants connected
\* throughout and each submitting attack, once per turn, in turns 1..AttackTurns;
\* every attack draws the bottom, the middle or the top of the range.
AttackNext ==
    \/ nextSocketId <= MatchSize /\ Connect
    \/ \E s \in connected :
          nextMatchId = 1 /\ Queue(s, s, TrophiesOf(s))
    \/ \E s \in connected :
          /\ TurnOf(1) <= AttackTurns
          /\ ~HasSubmitted(s, 1)
          /\ SubmitAction(s, 1, "attack", AttackRolls)

AttackSpec == Init /\ [][AttackNext]_vars

\* PairsSpec: several matches side by side. Up to NumSockets connections queue,
\* each under its own player id and also while it is in a match, until
\* PairsMatches matches have been made; participants and bystanders send attack
\* or an unknown action for turns 1..MaxTurn of any match, and disconnect.
PairsNext ==
    \/ nextSocketId <= NumSockets /\ Connect
    \/ \E s \in connected :
          (WouldPair(s) => nextMatchId <= PairsMatches) /\ Queue(s, s, TrophiesOf(s))
    \/ \E s \in connected, m \in 1..PairsMatches, a \in {"attack", "taunt"} :
          TurnOf(m) <= MaxTurn /\ SubmitAction(s, m, a, DuelRolls)
    \/ \E s \in connected : Disconnect(s)

PairsSpec == Init /\ [][PairsNext]_vars

\* FifoSpec: FifoClients connections are opened and each queues once, every one
\* with a player id no earlier join used; nobody leaves or disconnects.
FifoPlayers == 1..FifoClients

FifoNext ==
    \/ nextSocketId <= FifoClients /\ Connect
    \/ \E s \in connected, p \in FifoPlayers :
          IsOrderlyJoin(s, p) /\ Queue(s, p, TrophiesOf(p))

FifoSpec == Init /\ [][FifoNext]_vars

-----------------------------------------------------------------------------
\* Vocabulary of the properties
Resolved == last.kind = "submit" /\ last.verdict = "resolved"
Outcome == last.resolve[1]
IndicesOfType(box, type) == {k \in DOMAIN box : box[k].type = type}
Battle(m) == activeMatches[m].battleState
PendingOf(battle) == {id \in DOMAIN battle.players : battle.players[id].action # Null}

\* C1: every turn of a match is resolved at most once. A step changes a match's
\* turn number only by resolving it, that resolution takes the action the
\* submitter sends now and the one action the other side had recorded, reports
\* the turn number it resolved, advances the turn by exactly 1 and leaves no
\* action recorded; a match that left the active set never comes back.
C1_OneResolutionPerTurn ==
    [][\A m \in DOMAIN activeMatches :
          LET b == Battle(m)
              resolvedNow == /\ last'.kind = "submit" /\ last'.verdict = "resolved"
                             /\ last'.matchId = m
          IN /\ m \in DOMAIN activeMatches' =>
                   /\ activeMatches'[m].battleState.turn
                         = IF resolvedNow THEN b.turn + 1 ELSE b.turn
                   /\ resolvedNow => PendingOf(activeMatches'[m].battleState) = {}
             /\ m \notin DOMAIN activeMatches' =>
                   resolvedNow \/ last'.kind = "disconnect"
             /\ resolvedNow =>
                   /\ b.status = "waiting_actions"
                   /\ Cardinality(PendingOf(b)) = 1
                   /\ last'.playerId \in (DOMAIN b.players) \ PendingOf(b)
                   /\ last'.action \in ValidActions
                   /\ \A k \in IndicesOfType(outbox', "turn_result") :
                         /\ outbox'[k].data.result.turn = b.turn
                         /\ \A id \in DOMAIN b.players :
                               outbox'[k].data.result.actions[id]
                                  = IF id = last'.playerId THEN last'.action
                                    ELSE b.players[id].action
                   /\ Cardinality(IndicesOfType(outbox', "turn_result")) = MatchSize]_vars
       /\ [][\A m \in 1..(nextMatchId - 1) :
                m \notin DOMAIN activeMatches => m \notin DOMAIN activeMatches']_vars

\* C1 witness: a match whose first two turns have both been resolved, the last
\* one in the step just taken
C1_Witness ==
    /\ Resolved
    /\ last.matchId \in DOMAIN activeMatches
    /\ Battle(last.matchId).turn >= 3

\* C2: both combatants' hp is an integer in 0..100 in every match, active or
\* just finished, and is 100 in a match that was just created.
C2_HpInRange ==
    /\ \A m \in DOMAIN activeMatches : \A id \in DOMAIN Battle(m).players :
          Battle(m).players[id].hp \in 0..StartHp
    /\ Resolved => \A id \in DOMAIN Outcome.match.battleState.players :
          Outcome.match.battleState.players[id].hp \in 0..StartHp
    /\ (last.kind = "queue" /\ last.verdict = "matched") =>
          \A id \in DOMAIN Battle(last.matchId).players :
             Battle(last.matchId).players[id].hp = StartHp

\* C2 witness: a resolution in which a hit exceeded the hp that was left, so the
\* clamp at 0 acted
C2_Witness ==
    /\ Resolved
    /\ \E i \in 1..2 : Outcome.postDamage[i] < 0

\* C3: pairing is strict arrival order. While only new players on new
\* connections have queued and nobody left or disconnected, the k-th match
\* created holds the (2k-1)-th and the (2k)-th joiner, the earlier one as first
\* combatant, whatever their trophies; an odd last joiner is the one waiting.
C3_FifoPairing ==
    orderly =>
        /\ DOMAIN activeMatches = 1..(Len(arrivals) \div 2)
        /\ \A k \in 1..(Len(arrivals) \div 2) :
              /\ activeMatches[k].players = <<arrivals[2 * k - 1], arrivals[2 * k]>>
              /\ Battle(k).playerIds
                    = <<arrivals[2 * k - 1].playerId, arrivals[2 * k].playerId>>
        /\ waitingPlayers = IF Len(arrivals) % 2 = 1
                            THEN <<arrivals[Len(arrivals)]>> ELSE <<>>

\* C3 witness: two matches made of four joiners, one whose first combatant has
\* fewer trophies than the second and one whose first combatant has more
C3_Witness ==
    /\ orderly
    /\ Len(arrivals) = 4
    /\ \E j, k \in DOMAIN activeMatches :
          /\ activeMatches[j].players[1].trophies < activeMatches[j].players[2].trophies
          /\ activeMatches[k].players[1].trophies > activeMatches[k].players[2].trophies

\* C4: no two waiting entries share a playerId, and a pvp:queue for a player who
\* already waits takes the old entry out and leaves the new one, with the new
\* connection, at the back of the queue as that player's only entry.
C4_NoDuplicatePlayer ==
    /\ \A i, j \in DOMAIN waitingPlayers :
          i # j => waitingPlayers[i].playerId # waitingPlayers[j].playerId
    /\ (last.kind = "queue" /\ last.spliced # <<>>) =>
          /\ last.spliced[1].playerId = last.playerId
          /\ Len(waitingPlayers) >= 1
          /\ waitingPlayers[Len(waitingPlayers)].socketId = last.socket
          /\ waitingPlayers[Len(waitingPlayers)].playerId = last.playerId
          /\ Cardinality({i \in DOMAIN waitingPlayers :
                             waitingPlayers[i].playerId = last.playerId}) = 1

\* C4 witness: a waiting player queued again from another connection
C4_Witness ==
    /\ last.kind = "queue"
    /\ last.spliced # <<>>
    /\ last.spliced[1].socketId # last.socket
    /\ Len(waitingPlayers) = 1

\* C5: when both combatants are knocked out in the same turn, the winner is the
\* side whose hp minus incoming damage, before the clamp at 0, is strictly higher.
C5_LessOverkillWins ==
    (/\ Resolved
     /\ Outcome.postDamage[1] <= 0
     /\ Outcome.postDamage[2] <= 0
     /\ Outcome.postDamage[1] # Outcome.postDamage[2]) =>
        Outcome.winner = IF Outcome.postDamage[1] > Outcome.postDamage[2]
                         THEN Outcome.match.battleState.playerIds[1]
                         ELSE Outcome.match.battleState.playerIds[2]

\* C6: a disconnect of a participant of an active match, which is waiting for
\* actions, deletes the match, sends opponent_disconnect to the participant on
\* another connection and sends nothing else: no battle_end, hence no trophy delta.
C6_DisconnectForfeits ==
    last.kind = "disconnect" =>
        /\ \A r \in last.removed :
              /\ r.id \notin DOMAIN activeMatches
              /\ r.battleState.status = "waiting_actions"
              /\ \A i \in 1..Len(r.players) :
                    r.players[i].socketId # last.socket =>
                       \E k \in DOMAIN outbox :
                          /\ outbox[k].type = "opponent_disconnect"
                          /\ outbox[k].to = r.players[i].socketId
        /\ \A k \in DOMAIN outbox :
              /\ outbox[k].type = "opponent_disconnect"
              /\ outbox[k].to # last.socket
              /\ \E r \in last.removed : \E i \in 1..Len(r.players) :
                    r.players[i].socketId = outbox[k].to
        /\ Len(outbox) <= Cardinality(last.removed)
        /\ \A m \in DOMAIN activeMatches : \A i \in 1..Len(activeMatches[m].players) :
              activeMatches[m].players[i].socketId # last.socket

\* C6 witness: the second participant of a match disconnected and the first one,
\* on another connection, was told
C6_Witness ==
    /\ last.kind = "disconnect"
    /\ \E r \in last.removed :
          /\ r.players[2].socketId = last.socket
          /\ r.players[1].socketId # last.socket
    /\ Len(outbox) = 1
    /\ activeMatches = <<>>

\* The participant of match record r on connection s and the one on another
\* connection, as indices into r.players (0: none)
SlotOf(r, s) ==
    FindIndex(OnSocket(r.players, s))
OtherSlotOf(r, s) ==
    FindIndex(OffSocket(r.players, s))
ActionOfSlot(r, i) == r.battleState.players[r.players[i].playerId].action
\* The previous event was a disconnect that deleted match r while the leaving
\* side had an action recorded and the other side had none
DroppedAfterSubmit(r) ==
    /\ last.kind = "disconnect"
    /\ r \in last.removed
    /\ SlotOf(r, last.socket) > 0
    /\ OtherSlotOf(r, last.socket) > 0
    /\ ActionOfSlot(r, SlotOf(r, last.socket)) # Null
    /\ ActionOfSlot(r, OtherSlotOf(r, last.socket)) = Null

\* C7 as stated: when a participant's connection drops after its action was
\* accepted and before the opponent submitted, the opponent's next valid
\* submit_action resolves the turn and the opponent is sent the turn result.
C7_DropThenResolve ==
    [][\A r \in last.removed :
          (/\ DroppedAfterSubmit(r)
           /\ last'.kind = "submit"
           /\ last'.matchId = r.id
           /\ last'.socket = r.players[OtherSlotOf(r, last.socket)].socketId
           /\ last'.action \in {"attack", "defend"}) =>
              /\ last'.verdict = "resolved"
              /\ \E k \in DOMAIN outbox' :
                    outbox'[k].type = "turn_result" /\ outbox'[k].to = last'.socket]_vars

\* C7 amended: a disconnect forfeits the match also when the leaving side had an
\* action recorded. The match is deleted with the turn unresolved, the other
\* side is sent opponent_disconnect and no turn result; a deleted match never
\* returns, and a submit_action naming a match that is not active changes
\* nothing and sends nothing.
C7_DropForfeits ==
    /\ [][\A r \in last'.removed :
             (/\ last'.kind = "disconnect"
              /\ SlotOf(r, last'.socket) > 0
              /\ ActionOfSlot(r, SlotOf(r, last'.socket)) # Null) =>
                 /\ r.id \in DOMAIN activeMatches
                 /\ activeMatches[r.id] = r
                 /\ r.id \notin DOMAIN activeMatches'
                 /\ IndicesOfType(outbox', "turn_result") = {}
                 /\ OtherSlotOf(r, last'.socket) > 0 =>
                       \E k \in DOMAIN outbox' :
                          /\ outbox'[k].type = "opponent_disconnect"
                          /\ outbox'[k].to = r.players[OtherSlotOf(r, last'.socket)].socketId]_vars
    /\ [][\A s \in connected :
             (/\ last'.kind = "disconnect" /\ last'.socket = s) =>
                \A m \in DOMAIN activeMatches :
                   SlotOf(activeMatches[m], s) > 0 => activeMatches[m] \in last'.removed]_vars
    /\ [][\A m \in 1..(nextMatchId - 1) :
             m \notin DOMAIN activeMatches =>
                /\ m \notin DOMAIN activeMatches'
                /\ (last'.kind = "submit" /\ last'.matchId = m) =>
                      /\ last'.verdict = "no_match"
                      /\ activeMatches' = activeMatches
                      /\ outbox' = <<>>]_vars

\* C7 witness: a participant left with its action recorded, the opponent had not
\* submitted and was sent opponent_disconnect
C7_Witness ==
    /\ \E r \in last.removed : DroppedAfterSubmit(r)
    /\ Len(outbox) = 1
    /\ outbox[1].type = "opponent_disconnect"

\* C8: every connection is in at most one of a waiting entry and an active match,
\* and in at most one active match.
InQueue(s) == \E i \in DOMAIN waitingPlayers : waitingPlayers[i].socketId = s
MatchesHolding(s) == {m \in DOMAIN activeMatches : SlotOf(activeMatches[m], s) > 0}
C8_OneMembership ==
    \A s \in 1..(nextSocketId - 1) :
       (IF InQueue(s) THEN 1 ELSE 0) + Cardinality(MatchesHolding(s)) <= 1

\* C9 as stated: a session whose status is finished has both pending actions
\* null and is not in the active-match set.
FinishedNow == Resolved /\ Outcome.match.battleState.status = "finished"
C9_FinishedClearsActions ==
    FinishedNow =>
        /\ \A id \in DOMAIN Outcome.match.battleState.players :
              Outcome.match.battleState.players[id].action = Null
        /\ last.matchId \notin DOMAIN activeMatches

\* C9 amended: a session whose status is finished is not in the active-match set
\* (every match in the set is waiting for actions), finished is set exactly when
\* the turn declared a winner, and the two actions of the final turn stay
\* recorded in the discarded session.
C9_FinishedLeavesActiveSet ==
    /\ \A m \in DOMAIN activeMatches : Battle(m).status # "finished"
    /\ Resolved => (Outcome.match.battleState.status = "finished" <=> Outcome.winner # NoWinner)
    /\ FinishedNow =>
          /\ last.matchId \notin DOMAIN activeMatches
          /\ \A id \in DOMAIN Outcome.match.battleState.players :
                Outcome.match.battleState.players[id].action \in ValidActions

\* C9 witness: a turn just declared a winner
C9_Witness == FinishedNow /\ Outcome.winner # NoWinner

\* C10: a submit_action from a participant whose action for the turn is already
\* recorded changes nothing and sends nothing, whatever action it names.
C10_DuplicateIgnored ==
    [][\A m \in DOMAIN activeMatches :
          (/\ last'.kind = "submit"
           /\ last'.matchId = m
           /\ SlotOf(activeMatches[m], last'.socket) > 0
           /\ ActionOfSlot(activeMatches[m], SlotOf(activeMatches[m], last'.socket)) # Null) =>
              /\ last'.verdict = "already_submitted"
              /\ activeMatches' = activeMatches
              /\ waitingPlayers' = waitingPlayers
              /\ outbox' = <<>>]_vars

\* C10 witness: a second submit_action naming another action than the recorded
\* one was ignored, in a turn after the first
C10_Witness ==
    /\ last.kind = "submit"
    /\ last.verdict = "already_submitted"
    /\ last.matchId \in DOMAIN activeMatches
    /\ Battle(last.matchId).turn > FirstTurn
    /\ LET r == activeMatches[last.matchId]
       IN /\ ActionOfSlot(r, SlotOf(r, last.socket)) \notin {Null, last.action}
          /\ ActionOfSlot(r, OtherSlotOf(r, last.socket)) = Null

\* The cooldown of the participant in slot i of match record r
CooldownOfSlot(r, i) == r.battleState.players[r.players[i].playerId].specialCooldown

\* C11: a submit_action of special by a participant with no action recorded and a
\* specialCooldown above 0 is rejected: the sender alone is sent action_error, its
\* action stays null and neither the matches nor the queue change; and every
\* special a turn_result reports was played with a cooldown of 0 before the turn.
C11_SpecialOnCooldownRejected ==
    /\ [][\A m \in DOMAIN activeMatches :
             LET r == activeMatches[m]
                 i == SlotOf(r, last'.socket)
             IN (/\ last'.kind = "submit"
                 /\ last'.matchId = m
                 /\ last'.action = "special"
                 /\ i > 0
                 /\ ActionOfSlot(r, i) = Null
                 /\ CooldownOfSlot(r, i) > 0) =>
                    /\ last'.verdict = "cooldown"
                    /\ Len(outbox') = 1
                    /\ outbox'[1].type = "action_error"
                    /\ outbox'[1].to = last'.socket
                    /\ activeMatches' = activeMatches
                    /\ ActionOfSlot(activeMatches'[m], i) = Null
                    /\ waitingPlayers' = waitingPlayers
                    /\ nextMatchId' = nextMatchId
                    /\ connected' = connected]_vars
    /\ [][\A m \in DOMAIN activeMatches :
             (/\ last'.kind = "submit" /\ last'.verdict = "resolved" /\ last'.matchId = m) =>
                \A k \in IndicesOfType(outbox', "turn_result") :
                   \A id \in DOMAIN Battle(m).players :
                      outbox'[k].data.result.actions[id] = "special" =>
                         /\ Battle(m).players[id].specialCooldown = 0
                         /\ \A other \in (DOMAIN Battle(m).players) \ {id} :
                               outbox'[k].data.result.damage[other]
                                  \in {SpecialDamage, SpecialDamage \div 2}]_vars

\* C11 witness: a special was refused with action_error one turn before the
\* cooldown ran out, while the opponent's action was already recorded
C11_Witness ==
    /\ last.kind = "submit"
    /\ last.verdict = "cooldown"
    /\ last.matchId \in DOMAIN activeMatches
    /\ LET r == activeMatches[last.matchId]
       IN /\ CooldownOfSlot(r, SlotOf(r, last.socket)) = 1
          /\ ActionOfSlot(r, SlotOf(r, last.socket)) = Null
          /\ ActionOfSlot(r, OtherSlotOf(r, last.socket)) # Null
    /\ Len(outbox) = 1
    /\ outbox[1].type = "action_error"

\* What a resolution reported: the data of the first turn_result it sent
Reported(box) == box[CHOOSE k \in IndicesOfType(box, "turn_result") :
                        \A j \in IndicesOfType(box, "turn_result") : k <= j].data.result
\* The damage an action deals before any defence, from what the resolution drew
Dealt(action, draw) ==
    IF action = "attack" THEN AttackBase + draw[1]
    ELSE IF action = "special" THEN SpecialDamage
    ELSE 0

\* C12: defend halves, rounding down, only the damage the defender receives. In
\* every resolved turn the damage a side takes is what the opponent's action
\* deals, halved exactly when the receiving side played defend, whatever the
\* dealing side played; each hp drops by the damage taken (not below 0); and an
\* attack of 20 against a defend from 100/100 leaves 100 and 90.
C12_DefendHalvesIncoming ==
    [][\A m \in DOMAIN activeMatches :
          (/\ last'.kind = "submit" /\ last'.verdict = "resolved" /\ last'.matchId = m) =>
             LET b == Battle(m)
                 id1 == b.playerIds[1]
                 id2 == b.playerIds[2]
                 res == Reported(outbox')
                 draws == last'.resolve[1].draws
                 dealt1 == Dealt(res.actions[id1], draws[1])
                 dealt2 == Dealt(res.actions[id2], draws[2])
             IN /\ res.damage[id2] = IF res.actions[id2] = "defend"
                                      THEN dealt1 \div 2 ELSE dealt1
                /\ res.damage[id1] = IF res.actions[id1] = "defend"
                                      THEN dealt2 \div 2 ELSE dealt2
                /\ res.actions[id2] = "defend" =>
                      /\ 2 * res.damage[id2] <= dealt1
                      /\ dealt1 <= 2 * res.damage[id2] + 1
                /\ res.hp[id1] = Max(0, b.players[id1].hp - res.damage[id1])
                /\ res.hp[id2] = Max(0, b.players[id2].hp - res.damage[id2])
                /\ (/\ res.actions[id1] = "attack" /\ draws[1] = <<20 - AttackBase>>
                    /\ res.actions[id2] = "defend"
                    /\ b.players[id1].hp = StartHp /\ b.players[id2].hp = StartHp) =>
                       /\ res.hp[id1] = 100
                       /\ res.hp[id2] = 90]_vars

\* C12 witness: the first combatant attacked with an odd damage of 21 while the
\* second defended; the second took 10, the first nothing
C12_Witness ==
    /\ Resolved
    /\ LET res == Reported(outbox)
           id1 == Outcome.match.battleState.playerIds[1]
           id2 == Outcome.match.battleState.playerIds[2]
       IN /\ res.actions[id1] = "attack"
          /\ res.actions[id2] = "defend"
          /\ Outcome.draws[1] = <<21 - AttackBase>>
          /\ res.damage[id2] = 10
          /\ res.damage[id1] = 0
          /\ res.hp[id1] = StartHp
          /\ res.hp[id2] = StartHp - 10

\* The damage range the pair (dealing action, receiving action) allows
DamageRange(dealing, receiving) ==
    IF dealing = "attack"
    THEN (IF receiving = "defend" THEN 7..12 ELSE 15..25)
    ELSE IF dealing = "special"
    THEN (IF receiving = "defend" THEN {15} ELSE {30})
    ELSE {0}

\* C13: in every resolved turn the damage a side takes is an integer fixed by the
\* opponent's action and its own: 15..25 from an attack (7..12 when the receiver
\* defends), exactly 30 from a special (15 when the receiver defends), 0 from a
\* defend.
C13_DamageRanges ==
    Resolved =>
        LET res == Reported(outbox)
        IN \A id \in DOMAIN res.damage : \A other \in (DOMAIN res.damage) \ {id} :
              /\ res.damage[id] \in Nat
              /\ res.damage[id] \in DamageRange(res.actions[other], res.actions[id])

\* C13 witness: a turn in which the lowest attack met a defend (7 taken) and the
\* defender dealt nothing
C13_Witness ==
    /\ Resolved
    /\ LET res == Reported(outbox)
       IN \E id \in DOMAIN res.damage : \E other \in (DOMAIN res.damage) \ {id} :
             /\ res.actions[other] = "attack"
             /\ res.actions[id] = "defend"
             /\ res.damage[id] = 7
             /\ res.damage[other] = 0

\* The battle_end notices of the last handler, in emission order
BattleEnds == SelectSeq(outbox, LAMBDA msg : msg.type = "battle_end")

\* C14: a match that ends by knockout has exactly one winner, one of its two
\* participants. Exactly two battle_end notices are sent, both naming that
\* winner: the winner's connection gets won = TRUE and trophyChange 20, the
\* loser's gets won = FALSE and trophyChange -10, whatever the turn, the hp left
\* and the trophies of the two sides. No battle_end is sent otherwise.
C14_WinnerAndTrophies ==
    /\ FinishedNow =>
          LET r == Outcome.match
              w == Outcome.winner
          IN /\ Cardinality({i \in 1..Len(r.players) : r.players[i].playerId = w}) = 1
             /\ Len(r.players) = MatchSize
             /\ Len(BattleEnds) = MatchSize
             /\ \A i \in 1..Len(r.players) :
                   /\ BattleEnds[i].to = r.players[i].socketId
                   /\ BattleEnds[i].data.winner = w
                   /\ BattleEnds[i].data.won = (r.players[i].playerId = w)
                   /\ BattleEnds[i].data.trophyChange
                         = IF r.players[i].playerId = w THEN 20 ELSE -10
             /\ \E id \in DOMAIN r.battleState.players : r.battleState.players[id].hp = 0
    /\ ~FinishedNow => BattleEnds = <<>>

\* C14 witness: the side with fewer trophies won in turn 5 with hp left
C14_Witness ==
    /\ FinishedNow
    /\ Outcome.match.battleState.turn = 5
    /\ \E i, j \in 1..Len(Outcome.match.players) :
          /\ Outcome.match.players[i].playerId = Outcome.winner
          /\ Outcome.match.players[j].playerId # Outcome.winner
          /\ Outcome.match.players[i].trophies < Outcome.match.players[j].trophies
          /\ Outcome.match.battleState.players[Outcome.winner].hp > 0
          /\ BattleEnds[i].data.trophyChange = WinnerTrophyGain

\* C15: whenever a match finishes with a declared winner, the trophy deltas are
\* forwarded to the player store: one applyTrophyDelta call for the winner with
\* +20 and one for the loser with -10, and the battle_end notices are sent too.
C15_TrophiesForwarded ==
    FinishedNow =>
        /\ Len(BattleEnds) = MatchSize
        /\ \A i \in 1..Len(Outcome.match.players) :
              LET id == Outcome.match.players[i].playerId
                  delta == IF id = Outcome.winner
                           THEN WinnerTrophyGain ELSE 0 - LoserTrophyLoss
              IN Cardinality({k \in DOMAIN Outcome.calls :
                                 /\ Outcome.calls[k].op = "applyTrophyDelta"
                                 /\ Outcome.calls[k].playerId = id
                                 /\ Outcome.calls[k].delta = delta}) = 1

\* The hp of combatant i (1 or 2) after the resolution just made
HpAfter(i) == Outcome.match.battleState.players[Outcome.match.battleState.playerIds[i]].hp

\* C16: after a resolved turn, if exactly one combatant's hp is 0 the other one
\* is declared winner and the match ends (finished, out of the active set,
\* battle_end sent); if neither hp is 0 no winner is declared and the match stays
\* active, waiting for the actions of the next turn.
C16_SingleKnockout ==
    Resolved =>
        /\ \A i \in 1..2 :
              (HpAfter(i) = 0 /\ HpAfter(3 - i) > 0) =>
                 /\ Outcome.winner = Outcome.match.battleState.playerIds[3 - i]
                 /\ Outcome.match.battleState.status = "finished"
                 /\ last.matchId \notin DOMAIN activeMatches
                 /\ Len(BattleEnds) = MatchSize
        /\ (HpAfter(1) > 0 /\ HpAfter(2) > 0) =>
              /\ Outcome.winner = NoWinner
              /\ BattleEnds = <<>>
              /\ last.matchId \in DOMAIN activeMatches
              /\ activeMatches[last.matchId] = Outcome.match
              /\ Battle(last.matchId).status = "waiting_actions"
              /\ Battle(last.matchId).turn = Reported(outbox).turn + 1

\* C16 witness: the second combatant alone was knocked out and the first won
C16_Witness ==
    /\ Resolved
    /\ HpAfter(2) = 0
    /\ HpAfter(1) > 0
    /\ Outcome.winner = Outcome.match.battleState.playerIds[1]
    /\ activeMatches = <<>>

\* C17: a submit_action that names a match which is not active (unknown, or
\* ended), comes from a connection that is no participant of the named match, or
\* carries an action outside attack / defend / special is ignored: the handler
\* returns, the queue, the active matches and their battle states stay as they
\* were and nothing is sent.
C17_BadSubmitIgnored ==
    [][(/\ last'.kind = "submit"
        /\ \/ last'.matchId \notin DOMAIN activeMatches
           \/ SlotOf(activeMatches[last'.matchId], last'.socket) = 0
           \/ last'.action \notin ValidActions) =>
           /\ last'.verdict \in {"no_match", "not_participant", "already_submitted",
                                 "invalid_action"}
           /\ last'.matchId \notin DOMAIN activeMatches => last'.verdict = "no_match"
           /\ activeMatches' = activeMatches
           /\ waitingPlayers' = waitingPlayers
           /\ nextMatchId' = nextMatchId
           /\ connected' = connected
           /\ outbox' = <<>>]_vars

\* C17 witness: a connection outside the match sent a valid action for it while
\* one participant's action was recorded, and nothing moved
C17_Witness ==
    /\ last.kind = "submit"
    /\ last.verdict = "not_participant"
    /\ last.action \in ValidActions
    /\ last.matchId \in DOMAIN activeMatches
    /\ SlotOf(activeMatches[last.matchId], last.socket) = 0
    /\ PendingOf(Battle(last.matchId)) # {}
    /\ outbox = <<>>

\* C18: when both combatants are knocked out in the same turn, their resulting
\* hp are equal (both 0) and the winner is the second combatant of the pair, the
\* one who joined the queue later.
C18_TieGoesToSecond ==
    (Resolved /\ HpAfter(1) <= 0 /\ HpAfter(2) <= 0) =>
        /\ HpAfter(1) = HpAfter(2)
        /\ Outcome.winner = Outcome.match.battleState.playerIds[2]
        /\ Outcome.winner = Outcome.match.players[2].playerId
        /\ Outcome.winner # Outcome.match.players[1].playerId
        /\ (orderly /\ Len(arrivals) = MatchSize) =>
              Outcome.winner = arrivals[MatchSize].playerId
        /\ \A k \in DOMAIN BattleEnds : BattleEnds[k].data.winner = Outcome.winner

\* C18 witness: a double knock-out in which the first combatant was hit by less
\* than the second, in a match of the first two joiners, and the second won
C18_Witness ==
    /\ Resolved
    /\ HpAfter(1) = 0
    /\ HpAfter(2) = 0
    /\ Outcome.postDamage[1] > Outcome.postDamage[2]
    /\ orderly
    /\ Len(arrivals) = MatchSize
    /\ Outcome.winner = arrivals[MatchSize].playerId

\* The numbers of a battle that only a resolution may change
Numbers(battle) ==
    [turn |-> battle.turn,
     hp |-> [id \in DOMAIN battle.players |-> battle.players[id].hp],
     specialCooldown |-> [id \in DOMAIN battle.players |->
                             battle.players[id].specialCooldown]]

\* C19: a turn is resolved in the step of the second accepted submission and in
\* no other step. A submit_action accepted while the other side's action is
\* recorded resolves the turn at once (turn_result to both sides); any other step
\* (a first submission, a rejected one, a queue event, or nothing at all for
\* however long) leaves hp, cooldowns and turn number of the match as they were.
C19_ResolvedOnSecondSubmit ==
    [][\A m \in DOMAIN activeMatches :
          LET b == Battle(m)
              taken == /\ last'.kind = "submit"
                       /\ last'.matchId = m
                       /\ last'.verdict \in {"accepted", "resolved"}
              second == taken /\ Cardinality(PendingOf(b)) = 1
          IN /\ second <=> (taken /\ last'.verdict = "resolved")
             /\ second =>
                   /\ Cardinality(IndicesOfType(outbox', "turn_result")) = MatchSize
                   /\ Reported(outbox').turn = b.turn
                   /\ m \in DOMAIN activeMatches' =>
                         activeMatches'[m].battleState.turn = b.turn + 1
             /\ ~second =>
                   /\ IndicesOfType(outbox', "turn_result") = {}
                   /\ m \in DOMAIN activeMatches' =>
                         Numbers(activeMatches'[m].battleState) = Numbers(b)
             /\ (taken /\ ~second) =>
                   /\ PendingOf(b) = {}
                   /\ PendingOf(activeMatches'[m].battleState) = {last'.playerId}]_vars

\* C19 witness: in turn 3 one side has its action recorded and keeps waiting
\* while another event (a pvp:leave) is handled; nothing was resolved
C19_Witness ==
    /\ last.kind = "leave"
    /\ 1 \in DOMAIN activeMatches
    /\ Battle(1).turn = 3
    /\ Cardinality(PendingOf(Battle(1))) = 1
    /\ \A id \in DOMAIN Battle(1).players : Battle(1).players[id].hp < StartHp

\* C20: after a resolution that declares no winner the match is still in the
\* active set with both actions null, the turn number one more than the turn
\* just reported and status waiting_actions, so that a submit_action from either
\* participant would be accepted.
C20_NextTurnOpens ==
    (Resolved /\ Outcome.winner = NoWinner) =>
        /\ last.matchId \in DOMAIN activeMatches
        /\ PendingOf(Battle(last.matchId)) = {}
        /\ Battle(last.matchId).turn = Reported(outbox).turn + 1
        /\ Battle(last.matchId).status = "waiting_actions"
        /\ \A i \in 1..Len(activeMatches[last.matchId].players) :
              SubmitVerdict(activeMatches[last.matchId].players[i].socketId,
                            last.matchId, "attack") = "accepted"

\* C20 witness: the third turn was resolved without a winner while a special was
\* cooling down, and turn 4 is open
C20_Witness ==
    /\ Resolved
    /\ Outcome.winner = NoWinner
    /\ last.matchId \in DOMAIN activeMatches
    /\ Battle(last.matchId).turn = 4
    /\ PendingOf(Battle(last.matchId)) = {}
    /\ \E id \in DOMAIN Battle(last.matchId).players :
          Battle(last.matchId).players[id].specialCooldown > 0

\* C21: after each resolved turn a combatant's specialCooldown is exactly 2 if it
\* played special in that turn (no decay in the same turn), and otherwise its
\* value before the turn decreased by 1, but never below 0.
C21_CooldownStep ==
    [][\A m \in DOMAIN activeMatches :
          (/\ last'.kind = "submit" /\ last'.verdict = "resolved" /\ last'.matchId = m) =>
             \A id \in DOMAIN Battle(m).players :
                LET before == Battle(m).players[id].specialCooldown
                    after == last'.resolve[1].match.battleState.players[id].specialCooldown
                IN /\ after = IF Reported(outbox').actions[id] = "special"
                              THEN SpecialCooldown
                              ELSE Max(0, before - 1)
                   /\ Reported(outbox').specialCooldown[id] = after
                   /\ after \in 0..SpecialCooldown]_vars

\* C21 witness: a turn in which one side played special (cooldown 2 now) while
\* the other side's cooldown decayed from 2 to 1
C21_Witness ==
    /\ Resolved
    /\ LET res == Reported(outbox)
       IN \E id \in DOMAIN res.actions : \E other \in (DOMAIN res.actions) \ {id} :
             /\ res.actions[id] = "special"
             /\ res.specialCooldown[id] = SpecialCooldown
             /\ res.actions[other] # "special"
             /\ res.specialCooldown[other] = 1

\* C22: after every pvp:queue event fewer than two entries wait: the pairing
\* runs after every push, so the queue holds at most one entry between events; a
\* join that finds somebody waiting is paired in the same step and leaves the
\* queue empty, a join that finds nobody leaves exactly its own entry.
C22_QueueBelowTwo ==
    /\ Len(waitingPlayers) < MatchSize
    /\ last.kind = "queue" =>
          IF last.verdict = "matched"
          THEN /\ waitingPlayers = <<>>
               /\ last.matchId \in DOMAIN activeMatches
               /\ activeMatches[last.matchId].players[MatchSize].socketId = last.socket
          ELSE /\ Len(waitingPlayers) = 1
               /\ waitingPlayers[1].socketId = last.socket
               /\ waitingPlayers[1].playerId = last.playerId

\* C22 witness: the fourth join was paired with the third, the second pairing
\* in a row, and nobody is left waiting
C22_Witness ==
    /\ last.kind = "queue"
    /\ last.verdict = "matched"
    /\ last.matchId = 2
    /\ Len(arrivals) = 4
    /\ waitingPlayers = <<>>

\* The waiting entries a connection does not own, in queue order
EntriesOfOthers(q, s) == SelectSeq(q, LAMBDA e : e.socketId # s)

\* C23: a pvp:leave removes only the waiting entry owned by the sending
\* connection and does nothing when it owns none: the entries of other
\* connections (also one of the same player, re-queued from another connection)
\* keep their place, the active matches are unchanged and nothing is sent.
C23_LeaveOnlyOwnEntry ==
    [][last'.kind = "leave" =>
          /\ waitingPlayers' = EntriesOfOthers(waitingPlayers, last'.socket)
          /\ ~InQueue(last'.socket) => waitingPlayers' = waitingPlayers
          /\ InQueue(last'.socket) => Len(waitingPlayers') = Len(waitingPlayers) - 1
          /\ activeMatches' = activeMatches
          /\ nextMatchId' = nextMatchId
          /\ connected' = connected
          /\ outbox' = <<>>]_vars

\* C23 witness: a participant of an active match, owning no waiting entry, sent
\* pvp:leave while another connection was waiting; that entry stayed
C23_Witness ==
    /\ last.kind = "leave"
    /\ last.spliced = <<>>
    /\ Len(waitingPlayers) = 1
    /\ waitingPlayers[1].socketId # last.socket
    /\ MatchesHolding(last.socket) # {}
    /\ \E m \in DOMAIN activeMatches : \E i \in 1..MatchSize :
          /\ activeMatches[m].players[i].playerId = waitingPlayers[1].playerId
          /\ activeMatches[m].players[i].socketId = last.socket

\* C24: after a disconnect the connection is in no waiting entry and in no
\* active match, whatever it was a member of before (the queue, one match,
\* several matches, or all of these); the waiting entries of other connections
\* and the matches it took no part in are unchanged.
C24_DisconnectClearsMember ==
    [][last'.kind = "disconnect" =>
          /\ last'.socket \notin connected'
          /\ \A i \in DOMAIN waitingPlayers' : waitingPlayers'[i].socketId # last'.socket
          /\ \A m \in DOMAIN activeMatches' : SlotOf(activeMatches'[m], last'.socket) = 0
          /\ waitingPlayers' = EntriesOfOthers(waitingPlayers, last'.socket)
          /\ DOMAIN activeMatches' \subseteq DOMAIN activeMatches
          /\ \A m \in DOMAIN activeMatches :
                SlotOf(activeMatches[m], last'.socket) = 0 =>
                   /\ m \in DOMAIN activeMatches'
                   /\ activeMatches'[m] = activeMatches[m]]_vars

\* C24 witness: the connection that left was waiting and in two matches at
\* once; both matches and its entry are gone
C24_Witness ==
    /\ last.kind = "disconnect"
    /\ last.spliced # <<>>
    /\ Cardinality(last.removed) = 2
    /\ activeMatches = <<>>
    /\ waitingPlayers = <<>>

\* The match_found notices of the last handler, in emission order
MatchFounds(box) == SelectSeq(box, LAMBDA msg : msg.type = "match_found")

\* C25: when two waiting entries are paired both leave the queue and exactly one
\* new match is registered, the other matches untouched: the entry that waited
\* is its first participant and the joiner its second, the turn is 1, the status
\* waiting_actions, and both combatants have hp 100, specialCooldown 0 and no
\* action. Each side is sent one match_found with the id of that match, its own
\* player id as yourId, the other side's id and trophies as opponent, startHp 100.
C25_PairingCreatesMatch ==
    [][(last'.kind = "queue" /\ last'.verdict = "matched") =>
          LET m == last'.matchId
              r == activeMatches'[m]
              found == MatchFounds(outbox')
          IN /\ waitingPlayers # <<>>
             /\ waitingPlayers' = <<>>
             /\ m \notin DOMAIN activeMatches
             /\ DOMAIN activeMatches' = (DOMAIN activeMatches) \cup {m}
             /\ \A k \in DOMAIN activeMatches : activeMatches'[k] = activeMatches[k]
             /\ r.id = m
             /\ Len(r.players) = MatchSize
             /\ r.players[1] = waitingPlayers[1]
             /\ r.players[2].socketId = last'.socket
             /\ r.players[2].playerId = last'.playerId
             /\ r.battleState.turn = 1
             /\ r.battleState.status = "waiting_actions"
             /\ r.battleState.playerIds = <<r.players[1].playerId, r.players[2].playerId>>
             /\ DOMAIN r.battleState.players = {r.players[1].playerId, r.players[2].playerId}
             /\ \A id \in DOMAIN r.battleState.players :
                   /\ r.battleState.players[id].hp = 100
                   /\ r.battleState.players[id].specialCooldown = 0
                   /\ r.battleState.players[id].action = Null
             /\ Len(found) = MatchSize
             /\ \A i \in 1..MatchSize :
                   /\ found[i].to = r.players[i].socketId
                   /\ found[i].data.matchId = m
                   /\ found[i].data.yourId = r.players[i].playerId
                   /\ found[i].data.opponent.id = r.players[3 - i].playerId
                   /\ found[i].data.opponent.trophies = r.players[3 - i].trophies
                   /\ found[i].data.startHp = 100]_vars

\* C25 witness: the second match of the server was just made, of two players
\* with different trophies, while the first match is still active
C25_Witness ==
    /\ last.kind = "queue"
    /\ last.verdict = "matched"
    /\ last.matchId = 2
    /\ DOMAIN activeMatches = {1, 2}
    /\ activeMatches[2].players[1].trophies > activeMatches[2].players[2].trophies
    /\ Len(MatchFounds(outbox)) = MatchSize

\* C26: the first accepted submit of a turn sends exactly one message, an
\* opponent_ready without payload to the other combatant's connection, and
\* nothing to the submitter, whichever valid action was chosen; the recorded
\* action is the only thing in the server state that depends on the choice.
\* No opponent_ready ever goes to the connection that submitted.
C26_OpponentReadyRevealsNothing ==
    [][(last'.kind = "submit" /\ last'.verdict \in {"accepted", "resolved"}) =>
          LET m == last'.matchId
              r == activeMatches[m]
              s == last'.socket
              other == r.players[3 - SlotOf(r, s)]
              notice == Msg(other.socketId, "opponent_ready", NoData)
          IN /\ other.socketId # s
             /\ \A k \in IndicesOfType(outbox', "opponent_ready") : outbox'[k] = notice
             /\ last'.verdict = "accepted" =>
                   /\ outbox' = <<notice>>
                   /\ activeMatches' =
                         [activeMatches EXCEPT
                            ![m].battleState.players[last'.playerId].action = last'.action]]_vars

\* C26 witness: each of the three valid actions, submitted first in a turn
\* after the first, has just been accepted
C26_WitnessAction(a) ==
    /\ last.kind = "submit"
    /\ last.verdict = "accepted"
    /\ last.action = a
    /\ last.matchId \in DOMAIN activeMatches
    /\ Battle(last.matchId).turn > 1
    /\ outbox # <<>>
C26_Witness == C26_WitnessAction("special")
C26_WitnessAttack == C26_WitnessAction("attack")
C26_WitnessDefend == C26_WitnessAction("defend")

\* C27: a resolved turn sends one turn_result to each participant. Both carry
\* the same result: the turn just played, the two actions, and per player the
\* damage that player took (its hp went from the value before the turn down by
\* that amount, not below 0), its hp and its specialCooldown as stored after the
\* turn. They differ only in yourId, the recipient's player id, and opponentId,
\* the other combatant's.
C27_TurnResultSameForBoth ==
    [][(last'.kind = "submit" /\ last'.verdict = "resolved") =>
          LET r == activeMatches[last'.matchId]
              b == r.battleState
              after == last'.resolve[1].match.battleState
              sent == IndicesOfType(outbox', "turn_result")
          IN /\ Cardinality(sent) = MatchSize
             /\ \A j, k \in sent : outbox'[j].data.result = outbox'[k].data.result
             /\ \A i \in 1..MatchSize : \E k \in sent :
                   /\ outbox'[k].to = r.players[i].socketId
                   /\ outbox'[k].data.yourId = r.players[i].playerId
                   /\ outbox'[k].data.opponentId = r.players[3 - i].playerId
             /\ \A k \in sent :
                   LET res == outbox'[k].data.result
                   IN /\ res.turn = b.turn
                      /\ \A id \in DOMAIN b.players :
                            /\ res.actions[id] = IF id = last'.playerId THEN last'.action
                                                  ELSE b.players[id].action
                            /\ res.hp[id] = Max(0, b.players[id].hp - res.damage[id])
                            /\ res.hp[id] = after.players[id].hp
                            /\ res.specialCooldown[id] = after.players[id].specialCooldown]_vars

\* C27 witness: a turn resolved in which the two combatants took different,
\* positive damage, and the two notices name different recipients
C27_Witness ==
    /\ Resolved
    /\ LET res == Reported(outbox)
           sent == IndicesOfType(outbox, "turn_result")
       IN /\ \E id \in DOMAIN res.damage : \E other \in (DOMAIN res.damage) \ {id} :
                0 < res.damage[id] /\ res.damage[id] < res.damage[other]
          /\ \E j, k \in sent : outbox[j].data.yourId # outbox[k].data.yourId

\* C28: a pvp:submit_action for match M, whether it is accepted, rejected or
\* resolves the turn, leaves the waiting queue and every other active match as
\* they were.
C28_SubmitTouchesOneMatch ==
    [][last'.kind = "submit" =>
          /\ waitingPlayers' = waitingPlayers
          /\ \A k \in (DOMAIN activeMatches) \ {last'.matchId} :
                /\ k \in DOMAIN activeMatches'
                /\ activeMatches'[k] = activeMatches[k]
          /\ DOMAIN activeMatches' \subseteq DOMAIN activeMatches]_vars

\* Some other match than the one just submitted to has an action recorded
OtherMatchPending ==
    \E k \in (DOMAIN activeMatches) \ {last.matchId} : PendingOf(Battle(k)) # {}

\* C28 witness: a submit resolved the turn of one match while another match has
\* an action recorded and a player is waiting in the queue
C28_Witness ==
    /\ Resolved
    /\ OtherMatchPending
    /\ waitingPlayers # <<>>

\* C28, further cases reached: an accepted first submit and a rejected submit,
\* each while another match has an action recorded
C28_WitnessAccepted ==
    last.kind = "submit" /\ last.verdict = "accepted" /\ OtherMatchPending
C28_WitnessRejected ==
    /\ last.kind = "submit" /\ last.verdict \notin {"accepted", "resolved"}
    /\ last.matchId \in DOMAIN activeMatches
    /\ OtherMatchPending

\* C29: after every handler each match in activeMatches has status
\* waiting_actions. A turn that resolved left its match either back in
\* waiting_actions and in the set, or finished and out of the set; resolving is
\* the status of no stored match.
C29_ActiveMatchesAwaitActions ==
    /\ \A m \in DOMAIN activeMatches : Battle(m).status = "waiting_actions"
    /\ Resolved =>
          /\ Outcome.match.battleState.status \in {"waiting_actions", "finished"}
          /\ Outcome.match.battleState.status = "finished"
                <=> last.matchId \notin DOMAIN activeMatches

\* C29 witness: a turn just resolved without a winner and its match is in the set
C29_Witness ==
    /\ Resolved
    /\ last.matchId \in DOMAIN activeMatches
    /\ Battle(last.matchId).turn > 2

\* C29, the other case reached: a turn just resolved with a winner, the match
\* object is finished and gone from the set
C29_WitnessFinished ==
    /\ Resolved
    /\ Outcome.match.battleState.status = "finished"
    /\ last.matchId \notin DOMAIN activeMatches

\* The waiting entries of connection s, as indices into waitingPlayers
EntriesOn(s) == {i \in DOMAIN waitingPlayers : waitingPlayers[i].socketId = s}

\* C30 as stated: a connection owns at most one waiting entry, and the two
\* participants of every active match are on two distinct connections.
C30_ParticipantsOnDistinctConnections ==
    /\ \A s \in 1..(nextSocketId - 1) : Cardinality(EntriesOn(s)) <= 1
    /\ \A m \in DOMAIN activeMatches :
          activeMatches[m].players[1].socketId # activeMatches[m].players[2].socketId

\* C30, the part that holds: no connection has two waiting entries
C30_OneEntryPerConnection ==
    \A s \in 1..(nextSocketId - 1) : Cardinality(EntriesOn(s)) <= 1

\* C30, what the code does instead: one connection queued under two player ids
\* and was paired with itself; its submit was recorded for the first participant,
\* no opponent_ready was sent, and the second participant has no action
C30_SelfMatch ==
    /\ last.kind = "submit"
    /\ last.verdict = "accepted"
    /\ last.matchId \in DOMAIN activeMatches
    /\ LET r == activeMatches[last.matchId]
       IN /\ r.players[1].socketId = r.players[2].socketId
          /\ r.players[1].playerId # r.players[2].playerId
          /\ ActionOfSlot(r, 1) # Null
          /\ ActionOfSlot(r, 2) = Null
          /\ outbox = <<>>

\* In a match of one connection with itself no submit is accepted once the first
\* participant's action is recorded: the turn never resolves
C30_SelfMatchNeverResolves ==
    \A m \in DOMAIN activeMatches :
       activeMatches[m].players[1].socketId = activeMatches[m].players[2].socketId =>
          /\ ActionOfSlot(activeMatches[m], 2) = Null
          /\ Battle(m).turn = FirstTurn

\* C31: the two participants of every active match have different player ids, and
\* the battle state holds one combatant record for each of them.
C31_TwoCombatantRecords ==
    \A m \in DOMAIN activeMatches :
       LET r == activeMatches[m]
       IN /\ r.players[1].playerId # r.players[2].playerId
          /\ r.battleState.playerIds = <<r.players[1].playerId, r.players[2].playerId>>
          /\ DOMAIN r.battleState.players = {r.players[1].playerId, r.players[2].playerId}
          /\ Cardinality(DOMAIN r.battleState.players) = MatchSize

\* C31 witness: a join that first replaced the waiting entry of the same player
\* was answered with a waiting position, and a later join made a match
C31_Witness ==
    /\ last.kind = "queue"
    /\ last.verdict = "matched"
    /\ arrivals = <<>>
    /\ ~orderly
    /\ Cardinality(DOMAIN activeMatches[last.matchId].battleState.players) = MatchSize

\* The active matches in which player id p is a combatant
MatchesOfPlayer(p) == {m \in DOMAIN activeMatches : p \in DOMAIN Battle(m).players}

\* C32 as stated: a player id is a combatant in at most one active match.
C32_OneMatchPerPlayer ==
    \A p \in 1..NumSockets : Cardinality(MatchesOfPlayer(p)) <= 1

\* C32, what the code does instead: a join by a player who is a combatant of an
\* active match was just paired into a second match, the first still active
C32_PairedWhileInMatch ==
    /\ last.kind = "queue"
    /\ last.verdict = "matched"
    /\ Cardinality(MatchesOfPlayer(last.playerId)) = 2

\* The matches that were made and are no longer active
EndedMatches == {m \in 1..(nextMatchId - 1) : m \notin DOMAIN activeMatches}

\* C33: a match ends exactly once. A match leaves the active set in one step,
\* which is either the resolution that declares a winner or the disconnect of a
\* participant, and it never comes back. battle_end is sent only by that
\* resolution, once to each participant and after the turn_result notices of the
\* turn just played; opponent_disconnect is sent only by that disconnect, at most
\* once per match removed; no handler sends both. Once a match has ended, a
\* submit for it sends nothing and changes nothing, and no disconnect removes
\* it again.
C33_MatchEndsOnce ==
    [][LET ends == IndicesOfType(outbox', "battle_end")
           drops == IndicesOfType(outbox', "opponent_disconnect")
           results == IndicesOfType(outbox', "turn_result")
           gone == (DOMAIN activeMatches) \ (DOMAIN activeMatches')
           knockedOut == IF last'.kind = "submit" /\ last'.verdict = "resolved"
                            /\ last'.resolve[1].deleted
                         THEN {last'.matchId} ELSE {}
           dropped == IF last'.kind = "disconnect"
                      THEN {r.id : r \in last'.removed} ELSE {}
       IN /\ ends = {} \/ drops = {}
          /\ gone = knockedOut \cup dropped
          /\ knockedOut = {} \/ dropped = {}
          /\ ends # {} <=> knockedOut # {}
          /\ drops # {} => dropped # {}
          /\ Cardinality(drops) <= Cardinality(dropped)
          /\ \A m \in knockedOut :
                /\ m \in DOMAIN activeMatches
                /\ \A i \in 1..MatchSize :
                      Cardinality({k \in ends :
                         outbox'[k].to = activeMatches[m].players[i].socketId}) = 1
                /\ Cardinality(ends) = MatchSize
                /\ results # {}
                /\ \A j \in results :
                      /\ outbox'[j].data.result.turn = Battle(m).turn
                      /\ \A k \in ends : j < k
          /\ \A m \in EndedMatches :
                /\ m \notin DOMAIN activeMatches'
                /\ m \notin dropped
                /\ (last'.kind = "submit" /\ last'.matchId = m) =>
                      /\ last'.verdict = "no_match"
                      /\ outbox' = <<>>
                      /\ activeMatches' = activeMatches
                      /\ waitingPlayers' = waitingPlayers]_vars

\* C33 witness: the match ended by knockout (both connections are still there)
\* and a participant's later submit for it was ignored
C33_Witness ==
    /\ last.kind = "submit"
    /\ last.verdict = "no_match"
    /\ last.matchId \in EndedMatches
    /\ connected = 1..MatchSize

\* C33, further cases reached: the remaining participant submits, and then
\* disconnects, after the match ended by the other side's disconnect
C33_WitnessAfterDrop ==
    /\ last.kind = "submit"
    /\ last.verdict = "no_match"
    /\ last.matchId \in EndedMatches
    /\ Cardinality(connected) = 1
C33_WitnessSecondDrop ==
    /\ last.kind = "disconnect"
    /\ last.removed = {}
    /\ EndedMatches # {}
    /\ connected = {}
    /\ outbox = <<>>

\* C34: no match is won before turn 4. After the resolution of turn t <= 3 each
\* side has lost at most 30 + 25 * (t - 1) hp (one special and top-roll attacks
\* otherwise), at most 80 after turn 3, and no winner is declared.
C34_NoWinnerBeforeTurnFour ==
    Resolved =>
        LET res == Reported(outbox)
        IN res.turn <= 3 =>
              /\ Outcome.winner = NoWinner
              /\ IndicesOfType(outbox, "battle_end") = {}
              /\ last.matchId \in DOMAIN activeMatches
              /\ \A id \in DOMAIN res.hp :
                    /\ StartHp - res.hp[id] <= 30 + 25 * (res.turn - 1)
                    /\ res.hp[id] >= 20

\* C34 witness: turn 3 just resolved and a side has taken the full 80 damage
C34_Witness ==
    /\ Resolved
    /\ Reported(outbox).turn = 3
    /\ \E id \in DOMAIN Reported(outbox).hp : Reported(outbox).hp[id] = 20
    /\ Outcome.winner = NoWinner

\* C34, the bound is tight: a winner is declared in turn 4
C34_WitnessTurnFour ==
    /\ Resolved
    /\ Reported(outbox).turn = 4
    /\ Outcome.winner # NoWinner

\* C35: when both participants stay connected and attack in every turn, the
\* match is over by the resolution of turn 7 whatever the rolls: no active match
\* is ever in a turn after the 7th, and a resolution of turn 7 declares a winner,
\* sends battle_end and removes the match.
C35_AllAttackEndsByTurnSeven ==
    /\ \A m \in DOMAIN activeMatches : Battle(m).turn <= 7
    /\ (Resolved /\ Reported(outbox).turn >= 7) =>
          /\ Reported(outbox).turn = 7
          /\ Outcome.winner # NoWinner
          /\ IndicesOfType(outbox, "battle_end") # {}
          /\ last.matchId \notin DOMAIN activeMatches

\* C35 witness: every attack drew the bottom of the range, both sides came into
\* turn 7 with 10 hp and the seventh resolution ended the match
C35_Witness ==
    /\ Resolved
    /\ Reported(outbox).turn = 7
    /\ \A id \in DOMAIN Reported(outbox).damage : Reported(outbox).damage[id] = AttackBase
    /\ Outcome.postDamage = <<-5, -5>>
    /\ Outcome.winner # NoWinner

\* C35, a further case reached: a match that ends in turn 4 (top rolls)
C35_WitnessEarly ==
    Resolved /\ Reported(outbox).turn = 4 /\ Outcome.winner # NoWinner

\* The turn the last submit was sent in (0: for no active match)
SubmitTurn == IF Resolved THEN Reported(outbox).turn ELSE TurnOf(last.matchId)
\* Turn t just resolved with a special played by combatant id
SpecialPlayed(id, t) ==
    /\ Resolved
    /\ Reported(outbox).turn = t
    /\ id \in DOMAIN Reported(outbox).actions
    /\ Reported(outbox).actions[id] = "special"
\* The connection of combatant id just sent special in turn u
SpecialSent(id, u) ==
    /\ last.kind = "submit"
    /\ last.action = "special"
    /\ last.socket = id
    /\ SubmitTurn = u

\* C36: once a combatant has played special in turn t, every special it sends
\* in turns t + 1 and t + 2 of the match is rejected (on cooldown, or because it
\* already has an action for the turn): a special is accepted at most once in
\* three consecutive turns.
C36_SpecialOnceInThreeTurns ==
    \A id \in 1..MatchSize : \A t \in 1..DuelTurns :
       [](SpecialPlayed(id, t) =>
            [](\A u \in {t + 1, t + 2} :
                  SpecialSent(id, u) => last.verdict \in {"cooldown", "already_submitted"}))

\* C36 witness: a special is played in turn 4 by a combatant whose opponent has
\* then taken 30 twice and nothing in between: the special of turn 1 was
\* followed by two other actions and was accepted again in the third turn after
C36_Witness ==
    /\ \E id \in 1..MatchSize : SpecialPlayed(id, 4)
                                /\ Reported(outbox).damage[3 - id] = SpecialDamage
                                /\ Reported(outbox).hp[3 - id] = StartHp - 2 * SpecialDamage

\* C36, the rejections reached: a special sent in the first and in the second
\* turn after a special was answered with the cooldown error
C36_WitnessRejected ==
    /\ last.kind = "submit"
    /\ last.action = "special"
    /\ last.verdict = "cooldown"
    /\ SubmitTurn = 3
    /\ CooldownOfSlot(activeMatches[last.matchId],
                      SlotOf(activeMatches[last.matchId], last.socket)) = 1

\* C37: within a match hp never goes up. In every step each combatant of a
\* match that stays active has at most the hp it had, and the hp a resolution
\* reports and leaves in the match object, also that of a final turn, is at most
\* the hp before the turn.
C37_HpNeverIncreases ==
    [][\A m \in DOMAIN activeMatches : \A id \in DOMAIN Battle(m).players :
          /\ m \in DOMAIN activeMatches' =>
                activeMatches'[m].battleState.players[id].hp <= Battle(m).players[id].hp
          /\ (last'.kind = "submit" /\ last'.verdict = "resolved" /\ last'.matchId = m) =>
                /\ last'.resolve[1].match.battleState.players[id].hp
                      <= Battle(m).players[id].hp
                /\ \A k \in IndicesOfType(outbox', "turn_result") :
                      outbox'[k].data.result.hp[id] <= Battle(m).players[id].hp]_vars

\* C37 witness: a turn after the first resolved in which one side took damage
\* and the other, attacked by nobody, kept its hp
C37_Witness ==
    /\ Resolved
    /\ Reported(outbox).turn > 1
    /\ \E id \in DOMAIN Reported(outbox).damage :
          \E other \in (DOMAIN Reported(outbox).damage) \ {id} :
             /\ Reported(outbox).damage[id] = 0
             /\ Reported(outbox).damage[other] > 0
             /\ Reported(outbox).hp[id] < StartHp

====
